---- MODULE Spec2Model ----
(***************************************************************************)
(* Consul service discovery API client                                     *)
(* (lib/promscrape/discovery/consul/api.go).                               *)
(*                                                                         *)
(* Strings are sequences of one-character strings, so that formatting and  *)
(* parsing are computed.  Durations are integer ticks; TicksPerSecond      *)
(* fixes the resolution (time.Duration counts nanoseconds).                *)
(***************************************************************************)
EXTENDS Integers, Sequences, FiniteSets, TLC

VARIABLES
    index,          \* the change index the watcher passes to its next poll
    last,           \* what the latest getBlockingAPIResponse call did and returned
    readTimeout,    \* discoveryutils.BlockingClientReadTimeout
    waitTime,       \* *waitTime, the -promscrape.consul.waitTime flag
    configMap,      \* configMap: descriptor -> cached apiConfig (0 when none)
    watchers,       \* every consulWatcher constructed so far
    built,          \* per descriptor: runs and successes of newAPIConfig
    mu,             \* holder of the config map's lock (0 when free)
    pc,             \* per job: where it is in getAPIConfig
    held,           \* per job: the apiConfig it obtained (0 when none)
    lastBuild       \* what the latest newAPIConfig call did and returned

vars == <<index, last, readTimeout, waitTime, configMap, watchers, built,
          mu, pc, held, lastBuild>>

(***************************************************************************)
(* Bounds.                                                                 *)
(***************************************************************************)
TicksPerSecond == 1000
MaxHdrLen == 2
MaxIndex == 3
NumJobs == 2
MaxBuilds == 3

Second == TicksPerSecond
Minute == 60 * Second

(***************************************************************************)
(* strconv.                                                                *)
(***************************************************************************)
DigitChars == <<"0", "1", "2", "3", "4", "5", "6", "7", "8", "9">>

DigitOf ==
    [c \in {"0", "1", "2", "3", "4", "5", "6", "7", "8", "9"} |->
        (CHOOSE k \in 1..10 : DigitChars[k] = c) - 1]

IsDigit(c) == c \in DOMAIN DigitOf

DigitVal(c) == DigitOf[c]

\* Go's integer division truncates toward zero.
GoDiv(a, b) == IF a >= 0 THEN a \div b ELSE -((-a) \div b)

RECURSIVE FormatUint(_)
FormatUint(n) ==
    IF n < 10 THEN <<DigitChars[n + 1]>>
    ELSE FormatUint(n \div 10) \o <<DigitChars[(n % 10) + 1]>>

FormatInt(n) == IF n < 0 THEN <<"-">> \o FormatUint(-n) ELSE FormatUint(n)

RECURSIVE StripZeros(_)
StripZeros(s) ==
    IF Len(s) > 0 /\ Head(s) = "0" THEN StripZeros(Tail(s)) ELSE s

RECURSIVE DigitsLess(_, _)
\* a < b for digit strings of equal length
DigitsLess(a, b) ==
    IF Len(a) = 0 THEN FALSE
    ELSE IF DigitVal(Head(a)) # DigitVal(Head(b))
         THEN DigitVal(Head(a)) < DigitVal(Head(b))
         ELSE DigitsLess(Tail(a), Tail(b))

\* the magnitude written by digit string a exceeds the one written by lim
MagnitudeExceeds(a, lim) ==
    LET x == StripZeros(a) IN
    \/ Len(x) > Len(lim)
    \/ Len(x) = Len(lim) /\ DigitsLess(lim, x)

\* 1<<63 - 1 and 1<<63, the magnitudes ParseInt accepts with bitSize 64
MaxInt64Digits ==
    <<"9","2","2","3","3","7","2","0","3","6","8","5","4","7","7","5","8","0","7">>
MinInt64Digits ==
    <<"9","2","2","3","3","7","2","0","3","6","8","5","4","7","7","5","8","0","8">>

RECURSIVE DigitsValue(_, _)
DigitsValue(s, acc) ==
    IF Len(s) = 0 THEN acc
    ELSE DigitsValue(Tail(s), acc * 10 + DigitVal(Head(s)))

\* strconv.ParseInt(s, 10, 64): an optional sign, then one or more decimal
\* digits, within the int64 range.  [ok, val]; val is meaningful when ok.
ParseInt(s) ==
    LET neg == Len(s) > 0 /\ Head(s) = "-"
        signed == Len(s) > 0 /\ Head(s) \in {"+", "-"}
        digits == IF signed THEN Tail(s) ELSE s
    IN  IF Len(s) = 0 \/ Len(digits) = 0 THEN [ok |-> FALSE, val |-> 0]
        ELSE IF \E k \in 1..Len(digits) : ~IsDigit(digits[k])
        THEN [ok |-> FALSE, val |-> 0]
        ELSE IF MagnitudeExceeds(digits, IF neg THEN MinInt64Digits ELSE MaxInt64Digits)
        THEN [ok |-> FALSE, val |-> 0]
        ELSE [ok |-> TRUE,
              val |-> IF neg THEN -DigitsValue(digits, 0) ELSE DigitsValue(digits, 0)]

(***************************************************************************)
(* maxWaitTime                                                             *)
(***************************************************************************)
maxWaitTime_noHeadroom(ceiling, override) ==
    LET d1 == IF ceiling > 10 * Minute THEN 10 * Minute ELSE ceiling
    IN  IF override > Second /\ override < d1 THEN override ELSE d1

maxWaitTime_inclusive(ceiling, override) ==
    LET d0 == ceiling - GoDiv(ceiling, 8)
        d1 == IF d0 > 10 * Minute THEN 10 * Minute ELSE d0
    IN  IF override >= Second /\ override <= d1 THEN override ELSE d1

\* maxWaitTime(), reading BlockingClientReadTimeout and *waitTime
maxWaitTime(ceiling, override) ==
    LET d0 == ceiling - GoDiv(ceiling, 8)
        d1 == IF d0 > 10 * Minute THEN 10 * Minute ELSE d0
    IN  IF override > Second /\ override < d1 THEN override ELSE d1

\* int(d.Seconds())
WholeSeconds(d) == GoDiv(d, Second)

(***************************************************************************)
(* The registry's replies to one request.                                  *)
(***************************************************************************)
HdrChars == {"0", "1", "-", "x"}

Strs(n) == UNION {[1..k -> HdrChars] : k \in 0..n}

\* decimal strings just outside the int64 range
OverflowHdr == MinInt64Digits
NegOverflowHdr == <<"-">> \o [MinInt64Digits EXCEPT ![19] = "9"]

HeaderValues == Strs(MaxHdrLen) \cup {<<"+", "1">>, OverflowHdr, NegOverflowHdr}

\* the X-Consul-Index header of a response: absent, or present with a value
NoHeader == [present |-> FALSE, value |-> <<>>]
Headers == {NoHeader} \cup {[present |-> TRUE, value |-> v] : v \in HeaderValues}

\* fasthttp status codes of the replies considered
Statuses == {200, 500}
NilData == "<nil>"
Body == "[services]"

NetErr == [kind |-> "neterr", status |-> 0, hdr |-> NoHeader, body |-> NilData]
Replies ==
    {NetErr} \cup
    {[kind |-> "resp", status |-> st, hdr |-> h, body |-> Body] :
        st \in Statuses, h \in Headers}

\* resp.Header.Peek: the value, empty when the header is absent
Peek(resp) == IF resp.hdr.present THEN resp.hdr.value ELSE <<>>

Is2xx(status) == status >= 200 /\ status < 300

\* client.GetBlockingAPIResponse(path, inspectResponse): one request; the
\* callback sees every response that arrives; a network failure or a
\* non-2xx status is an error.
ClientGetBlockingAPIResponse(path, reply) ==
    [requests  |-> <<path>>,
     inspected |-> reply.kind = "resp",
     data      |-> IF reply.kind = "resp" /\ Is2xx(reply.status)
                   THEN reply.body ELSE NilData,
     err       |-> IF reply.kind = "neterr" THEN "cannot fetch"
                   ELSE IF ~Is2xx(reply.status) THEN "unexpected status code"
                   ELSE ""]

(***************************************************************************)
(* getBlockingAPIResponse                                                  *)
(***************************************************************************)
getMeta_rollbackInclusive(idx, resp) ==
    LET ind == Peek(resp)
        p == ParseInt(ind)
    IN  IF Len(ind) = 0 THEN idx
        ELSE IF ~p.ok THEN idx
        ELSE IF p.val < 1 THEN 1
        ELSE IF idx >= p.val THEN 0
        ELSE p.val

getMeta_resetOnAnomaly(idx, resp) ==
    LET ind == Peek(resp)
        p == ParseInt(ind)
    IN  IF Len(ind) = 0 THEN 0
        ELSE IF ~p.ok THEN 0
        ELSE IF p.val < 1 THEN 1
        ELSE IF idx > p.val THEN 0
        ELSE p.val

getMeta_noRollback(idx, resp) ==
    LET ind == Peek(resp)
        p == ParseInt(ind)
    IN  IF Len(ind) = 0 THEN idx
        ELSE IF ~p.ok THEN idx
        ELSE IF p.val < 1 THEN 1
        ELSE p.val

getMeta_stickyReset(idx, resp) ==
    LET ind == Peek(resp)
        p == ParseInt(ind)
    IN  IF Len(ind) = 0 THEN idx
        ELSE IF ~p.ok THEN idx
        ELSE IF p.val < 1 THEN 1
        ELSE IF idx > p.val \/ idx = 0 THEN 0
        ELSE p.val

getMeta_noSanity(idx, resp) ==
    LET ind == Peek(resp)
        p == ParseInt(ind)
    IN  IF Len(ind) = 0 THEN idx
        ELSE IF ~p.ok THEN idx
        ELSE IF idx > p.val THEN 0
        ELSE p.val

\* the getMeta closure: the value of the captured index after it has run
getMeta(idx, resp) ==
    LET ind == Peek(resp)
        p == ParseInt(ind)
    IN  IF Len(ind) = 0 THEN idx
        ELSE IF ~p.ok THEN idx
        ELSE IF p.val < 1 THEN 1
        ELSE IF idx > p.val THEN 0
        ELSE p.val

NoErr == [msg |-> "", path |-> <<>>, cause |-> ""]
BlockingErrMsg == "cannot perform blocking Consul API request"

BlockingPath_roundedWait(path, idx, ceiling, override) ==
    path \o <<"&index=">> \o FormatInt(idx)
         \o <<"&wait=">>
         \o FormatInt(WholeSeconds(maxWaitTime(ceiling, override) + GoDiv(Second, 2)))
         \o <<"s">>

BlockingPath(path, idx, ceiling, override) ==
    path \o <<"&index=">> \o FormatInt(idx)
         \o <<"&wait=">> \o FormatInt(WholeSeconds(maxWaitTime(ceiling, override)))
         \o <<"s">>

getBlockingAPIResponse_retry(path, idx, reply, ceiling, override) ==
    LET p == BlockingPath(path, idx, ceiling, override)
        r1 == ClientGetBlockingAPIResponse(p, reply)
        r2 == ClientGetBlockingAPIResponse(p, reply)
        r == IF r1.err # "" THEN r2 ELSE r1
        newIdx == IF r.inspected THEN getMeta(idx, reply) ELSE idx
    IN  [requests |-> IF r1.err # "" THEN r1.requests \o r2.requests ELSE r1.requests,
         wait     |-> maxWaitTime(ceiling, override),
         data     |-> IF r.err # "" THEN NilData ELSE r.data,
         index    |-> newIdx,
         err      |-> IF r.err # ""
                      THEN [msg |-> BlockingErrMsg, path |-> p, cause |-> r.err]
                      ELSE NoErr]

\* getBlockingAPIResponse(client, path, index) against a registry that
\* answers the request with reply; ceiling and override are the globals
\* maxWaitTime reads.
getBlockingAPIResponse(path, idx, reply, ceiling, override) ==
    LET p == BlockingPath(path, idx, ceiling, override)
        r == ClientGetBlockingAPIResponse(p, reply)
        newIdx == IF r.inspected THEN getMeta(idx, reply) ELSE idx
    IN  [requests |-> r.requests,
         wait     |-> maxWaitTime(ceiling, override),
         data     |-> IF r.err # "" THEN NilData ELSE r.data,
         index    |-> newIdx,
         err      |-> IF r.err # ""
                      THEN [msg |-> BlockingErrMsg, path |-> p, cause |-> r.err]
                      ELSE NoErr]

ServicesPath == <<"/v1/catalog/services?dc=dc1">>

NoCall ==
    [called |-> FALSE, argIndex |-> 0, reply |-> NetErr, ceiling |-> 0,
     override |-> 0, requests |-> <<>>, wait |-> 0, data |-> NilData,
     index |-> 0, err |-> NoErr]

\* one iteration of the watcher's loop: poll with the current index and
\* keep the index the call returns
Poll(replies) ==
    \E reply \in replies :
        LET r == getBlockingAPIResponse(ServicesPath, index, reply, readTimeout, waitTime)
        IN  /\ last' = [called |-> TRUE, argIndex |-> index, reply |-> reply,
                        ceiling |-> readTimeout, override |-> waitTime,
                        requests |-> r.requests, wait |-> r.wait, data |-> r.data,
                        index |-> r.index, err |-> r.err]
            /\ index' = r.index
            /\ UNCHANGED <<readTimeout, waitTime, configMap, watchers, built,
                           mu, pc, held, lastBuild>>

(***************************************************************************)
(* Configuration descriptors (SDConfig) and the environment of a build.    *)
(***************************************************************************)
Unset == [set |-> FALSE, value |-> ""]
Given(v) == [set |-> TRUE, value |-> v]

HostPort == <<"h", ":", "1">>
HttpsUrl == <<"h", "t", "t", "p", "s", ":", "/", "/", "c">>
SchemeSep == <<":", "/", "/">>
DefaultServer == <<"l","o","c","a","l","h","o","s","t",":","8","5","0","0">>
HttpScheme == <<"h", "t", "t", "p">>
HttpsScheme == <<"h", "t", "t", "p", "s">>

SDConfigs ==
    [Server : {<<>>, HostPort, HttpsUrl},
     Scheme : {<<>>, HttpsScheme},
     Datacenter : {"", "dc1"},
     Token : {Unset, Given(""), Given("abc")},
     Username : {"", "user"},
     Password : {"", "pw"},
     TagSeparator : {Unset, Given(";")}]

\* what a build finds outside the descriptor: the two environment variables,
\* the token file, and whether each collaborator succeeds
EnvOK ==
    [tokenFile |-> "", fileOK |-> TRUE, fileData |-> "filetok", tokenEnv |-> "",
     authOK |-> TRUE, proxyOK |-> TRUE, clientOK |-> TRUE,
     agentOK |-> TRUE, parseOK |-> TRUE, agentDC |-> "dc-agent"]

Envs ==
    [tokenFile : {"", "/tok"}, fileOK : BOOLEAN, fileData : {"filetok"},
     tokenEnv : {"", "envtok"}, authOK : BOOLEAN, proxyOK : BOOLEAN,
     clientOK : BOOLEAN, agentOK : BOOLEAN, parseOK : BOOLEAN,
     agentDC : {"dc-agent"}]

Contains(s, sub) ==
    \E k \in 0..(Len(s) - Len(sub)) : SubSeq(s, k + 1, k + Len(sub)) = sub

(***************************************************************************)
(* getToken, getDatacenter, newAPIConfig                                   *)
(***************************************************************************)
TokenFileErr == "cannot read consul token file"

getToken_fallthrough(token, env) ==
    IF token.set THEN [token |-> token.value, err |-> ""]
    ELSE IF env.tokenFile # "" /\ env.fileOK
    THEN [token |-> env.fileData, err |-> ""]
    ELSE [token |-> env.tokenEnv, err |-> ""]

\* getToken(token) with the environment variables and the token file of env
getToken(token, env) ==
    IF token.set THEN [token |-> token.value, err |-> ""]
    ELSE IF env.tokenFile # ""
    THEN IF ~env.fileOK
         THEN [token |-> "", err |-> TokenFileErr]
         ELSE [token |-> env.fileData, err |-> ""]
    ELSE [token |-> env.tokenEnv, err |-> ""]

AgentSelfPath == "/v1/agent/self"

\* a request sent through client.GetAPIResponse (not a blocking one)
AgentSelfRequest == [path |-> AgentSelfPath, blocking |-> FALSE]

getDatacenter_alwaysQuery(dc, env) ==
    IF ~env.agentOK
    THEN [dc |-> "", err |-> "cannot query consul agent info",
          requests |-> <<AgentSelfRequest>>]
    ELSE IF ~env.parseOK
    THEN [dc |-> "", err |-> "cannot parse agent info",
          requests |-> <<AgentSelfRequest>>]
    ELSE [dc |-> IF dc # "" THEN dc ELSE env.agentDC, err |-> "",
          requests |-> <<AgentSelfRequest>>]

\* getDatacenter(client, dc) with an agent that answers as env says
getDatacenter(dc, env) ==
    IF dc # "" THEN [dc |-> dc, err |-> "", requests |-> <<>>]
    ELSE IF ~env.agentOK
    THEN [dc |-> "", err |-> "cannot query consul agent info",
          requests |-> <<AgentSelfRequest>>]
    ELSE IF ~env.parseOK
    THEN [dc |-> "", err |-> "cannot parse agent info",
          requests |-> <<AgentSelfRequest>>]
    ELSE [dc |-> env.agentDC, err |-> "", requests |-> <<AgentSelfRequest>>]

apiServerOf_alwaysPrefix(sdc) ==
    LET s0 == IF sdc.Server = <<>> THEN DefaultServer ELSE sdc.Server
        scheme == IF sdc.Scheme = <<>> THEN HttpScheme ELSE sdc.Scheme
    IN  scheme \o SchemeSep \o s0

\* lines 57-67: the server address the client is created for
apiServerOf(sdc) ==
    LET s0 == IF sdc.Server = <<>> THEN DefaultServer ELSE sdc.Server
        scheme == IF sdc.Scheme = <<>> THEN HttpScheme ELSE sdc.Scheme
    IN  IF ~Contains(s0, SchemeSep) THEN scheme \o SchemeSep \o s0 ELSE s0

NoBasicAuth == [set |-> FALSE, username |-> "", password |-> ""]
NoAuth == [basicAuth |-> NoBasicAuth, token |-> ""]

authOf_keepToken(sdc, tok) ==
    IF sdc.Username # ""
    THEN [basicAuth |-> [set |-> TRUE, username |-> sdc.Username,
                         password |-> sdc.Password],
          token |-> tok]
    ELSE [basicAuth |-> NoBasicAuth, token |-> tok]

\* lines 45-53: the basic-auth config and the token handed to
\* promauth.NewConfig, given the token getToken resolved
authOf(sdc, tok) ==
    IF sdc.Username # ""
    THEN [basicAuth |-> [set |-> TRUE, username |-> sdc.Username,
                         password |-> sdc.Password],
          token |-> ""]
    ELSE [basicAuth |-> NoBasicAuth, token |-> tok]

\* what a newAPIConfig call did and returned: resolved is getToken's token,
\* auth what promauth.NewConfig was given
BuildResult(sdc, err, steps, requests, resolved, auth, dc, made) ==
    [err |-> err,
     cfgNil |-> err # "",
     tagSeparator |-> IF err # "" THEN ""
                      ELSE IF sdc.TagSeparator.set THEN sdc.TagSeparator.value
                      ELSE ",",
     watcherCreated |-> made,
     steps |-> steps,
     requests |-> requests,
     resolved |-> resolved,
     basicAuth |-> auth.basicAuth,
     token |-> auth.token,
     apiServer |-> apiServerOf(sdc),
     dc |-> dc]

newAPIConfig_watcherFirst(sdc, env) ==
    LET t == getToken(sdc.Token, env)
        a == authOf(sdc, t.token)
        d == getDatacenter(sdc.Datacenter, env)
    IN  IF t.err # ""
        THEN BuildResult(sdc, t.err, <<"getToken">>, <<>>, "", NoAuth, "", FALSE)
        ELSE IF ~env.authOK
        THEN BuildResult(sdc, "cannot parse auth config",
                         <<"getToken", "NewConfig">>, <<>>, t.token, a, "", FALSE)
        ELSE IF ~env.proxyOK
        THEN BuildResult(sdc, "cannot parse proxy auth config",
                         <<"getToken", "NewConfig", "ProxyNewConfig">>, <<>>,
                         t.token, a, "", FALSE)
        ELSE IF ~env.clientOK
        THEN BuildResult(sdc, "cannot create HTTP client",
                         <<"getToken", "NewConfig", "ProxyNewConfig", "NewClient">>,
                         <<>>, t.token, a, "", FALSE)
        ELSE IF d.err # ""
        THEN BuildResult(sdc, d.err,
                         <<"getToken", "NewConfig", "ProxyNewConfig", "NewClient",
                           "newConsulWatcher", "getDatacenter">>,
                         d.requests, t.token, a, "", TRUE)
        ELSE BuildResult(sdc, "",
                         <<"getToken", "NewConfig", "ProxyNewConfig", "NewClient",
                           "newConsulWatcher", "getDatacenter">>,
                         d.requests, t.token, a, d.dc, TRUE)

newAPIConfig_authFirst(sdc, env) ==
    LET t == IF sdc.Username # "" THEN [token |-> "", err |-> ""]
             ELSE getToken(sdc.Token, env)
        a == authOf(sdc, t.token)
        d == getDatacenter(sdc.Datacenter, env)
    IN  IF t.err # ""
        THEN BuildResult(sdc, t.err, <<"getToken">>, <<>>, "", NoAuth, "", FALSE)
        ELSE IF ~env.authOK
        THEN BuildResult(sdc, "cannot parse auth config",
                         <<"getToken", "NewConfig">>, <<>>, t.token, a, "", FALSE)
        ELSE IF ~env.proxyOK
        THEN BuildResult(sdc, "cannot parse proxy auth config",
                         <<"getToken", "NewConfig", "ProxyNewConfig">>, <<>>,
                         t.token, a, "", FALSE)
        ELSE IF ~env.clientOK
        THEN BuildResult(sdc, "cannot create HTTP client",
                         <<"getToken", "NewConfig", "ProxyNewConfig", "NewClient">>,
                         <<>>, t.token, a, "", FALSE)
        ELSE IF d.err # ""
        THEN BuildResult(sdc, d.err,
                         <<"getToken", "NewConfig", "ProxyNewConfig", "NewClient",
                           "getDatacenter">>,
                         d.requests, t.token, a, "", FALSE)
        ELSE BuildResult(sdc, "",
                         <<"getToken", "NewConfig", "ProxyNewConfig", "NewClient",
                           "getDatacenter", "newConsulWatcher">>,
                         d.requests, t.token, a, d.dc, TRUE)

\* newAPIConfig(sdc, baseDir) in environment env: the error ("" for nil),
\* the steps run, the requests sent, and whether newConsulWatcher was called
newAPIConfig(sdc, env) ==
    LET t == getToken(sdc.Token, env)
        a == authOf(sdc, t.token)
        d == getDatacenter(sdc.Datacenter, env)
    IN  IF t.err # ""
        THEN BuildResult(sdc, t.err, <<"getToken">>, <<>>, "", NoAuth, "", FALSE)
        ELSE IF ~env.authOK
        THEN BuildResult(sdc, "cannot parse auth config",
                         <<"getToken", "NewConfig">>, <<>>, t.token, a, "", FALSE)
        ELSE IF ~env.proxyOK
        THEN BuildResult(sdc, "cannot parse proxy auth config",
                         <<"getToken", "NewConfig", "ProxyNewConfig">>, <<>>,
                         t.token, a, "", FALSE)
        ELSE IF ~env.clientOK
        THEN BuildResult(sdc, "cannot create HTTP client",
                         <<"getToken", "NewConfig", "ProxyNewConfig", "NewClient">>,
                         <<>>, t.token, a, "", FALSE)
        ELSE IF d.err # ""
        THEN BuildResult(sdc, d.err,
                         <<"getToken", "NewConfig", "ProxyNewConfig", "NewClient",
                           "getDatacenter">>,
                         d.requests, t.token, a, "", FALSE)
        ELSE BuildResult(sdc, "",
                         <<"getToken", "NewConfig", "ProxyNewConfig", "NewClient",
                           "getDatacenter", "newConsulWatcher">>,
                         d.requests, t.token, a, d.dc, TRUE)

(***************************************************************************)
(* The config map and the jobs that use it.                                *)
(***************************************************************************)
Jobs == 1..NumJobs

SdcA ==
    [Server |-> HostPort, Scheme |-> <<>>, Datacenter |-> "", Token |-> Unset,
     Username |-> "", Password |-> "pw", TagSeparator |-> Unset]
SdcB == [SdcA EXCEPT !.Datacenter = "dc1", !.Token = Given("abc")]
CacheDescs == {SdcA, SdcB}

\* the environments a cached build is run in: everything works, or exactly
\* one step fails
CacheEnvs ==
    {EnvOK,
     [EnvOK EXCEPT !.tokenFile = "/tok", !.fileOK = FALSE],
     [EnvOK EXCEPT !.authOK = FALSE],
     [EnvOK EXCEPT !.proxyOK = FALSE],
     [EnvOK EXCEPT !.clientOK = FALSE],
     [EnvOK EXCEPT !.agentOK = FALSE],
     [EnvOK EXCEPT !.parseOK = FALSE]}

\* the key under which the config map files a descriptor: its field values
configKey(sdc) == sdc

\* the watcher newConsulWatcher starts: stopped is its stop mark, inflight
\* whether a blocking request of its poll loop is outstanding
NewWatcher(sdc, r) ==
    [key |-> sdc, dc |-> r.dc, tagSeparator |-> r.tagSeparator, stopped |-> FALSE,
     inflight |-> FALSE]

\* consulWatcher.mustStop: marks the watcher as stopping and returns; an
\* outstanding request is left to complete or time out
consulWatcherMustStop(w) == [w EXCEPT !.stopped = TRUE]

\* ac.mustStop() on the apiConfig whose watcher is ws[id]
apiConfigMustStop(ws, id) == [ws EXCEPT ![id] = consulWatcherMustStop(@)]

CanPoll_ignoreStop(w) == ~w.inflight

\* the poll loop issues its next request when none is outstanding and the
\* watcher has not been told to stop
CanPoll(w) == ~w.stopped /\ ~w.inflight

\* configMap.Get(key, newConfig) with the lock held: the cached value, or
\* the value newConfig builds, stored only when it was built without error.
\* An apiConfig is identified by the position of its watcher in ws.
ConfigMapGet(m, ws, key, sdc, env) ==
    IF m[key] # 0
    THEN [v |-> m[key], err |-> "", m |-> m, ws |-> ws, ran |-> FALSE,
          r |-> newAPIConfig(sdc, env)]
    ELSE LET r == newAPIConfig(sdc, env)
             ws2 == IF r.watcherCreated THEN Append(ws, NewWatcher(sdc, r)) ELSE ws
         IN  IF r.err # ""
             THEN [v |-> 0, err |-> r.err, m |-> m, ws |-> ws2, ran |-> TRUE, r |-> r]
             ELSE [v |-> Len(ws2), err |-> "", m |-> [m EXCEPT ![key] = Len(ws2)],
                   ws |-> ws2, ran |-> TRUE, r |-> r]

getAPIConfig_uncached(m, ws, sdc, env) ==
    LET g == ConfigMapGet([k \in DOMAIN m |-> 0], ws, configKey(sdc), sdc, env)
    IN  [g EXCEPT !.m = IF g.err # "" THEN m ELSE [m EXCEPT ![configKey(sdc)] = g.v]]

\* getAPIConfig(sdc, baseDir): v is 0 for a nil *apiConfig
getAPIConfig(m, ws, sdc, env) ==
    LET g == ConfigMapGet(m, ws, configKey(sdc), sdc, env)
    IN  IF g.err # "" THEN [g EXCEPT !.v = 0] ELSE g

TotalRuns == LET RECURSIVE Sum(_)
                 Sum(S) == IF S = {} THEN 0
                           ELSE LET d == CHOOSE x \in S : TRUE
                                IN  built[d].runs + Sum(S \ {d})
             IN  Sum(CacheDescs)

NoBuild ==
    [called |-> FALSE, sdc |-> SdcA, env |-> EnvOK]
    @@ BuildResult(SdcA, "", <<>>, <<>>, "", NoAuth, "", FALSE)

\* a job enters configMap.Get for descriptor d and takes the map's lock
GetLock(j) ==
    \E d \in CacheDescs :
        /\ pc[j].at = "idle"
        /\ held[j] = 0
        /\ mu = 0
        /\ TotalRuns < MaxBuilds
        /\ mu' = j
        /\ pc' = [pc EXCEPT ![j] = [at |-> "get", sdc |-> d]]
        /\ UNCHANGED <<index, last, readTimeout, waitTime, configMap, watchers,
                       built, held, lastBuild>>

\* the rest of getAPIConfig, run under the lock, which is then released
GetBody(j) ==
    /\ pc[j].at = "get"
    /\ \E env \in CacheEnvs :
        LET sdc == pc[j].sdc
            g == getAPIConfig(configMap, watchers, sdc, env)
        IN  /\ configMap' = g.m
            /\ watchers' = g.ws
            /\ held' = [held EXCEPT ![j] = g.v]
            /\ built' = IF g.ran
                        THEN [built EXCEPT ![sdc].runs = @ + 1,
                                           ![sdc].ok = IF g.err = "" THEN @ + 1 ELSE @]
                        ELSE built
            /\ lastBuild' = IF g.ran
                            THEN [called |-> TRUE, sdc |-> sdc, env |-> env] @@ g.r
                            ELSE lastBuild
    /\ mu' = 0
    /\ pc' = [pc EXCEPT ![j] = [at |-> "idle", sdc |-> pc[j].sdc]]
    /\ UNCHANGED <<index, last, readTimeout, waitTime>>

Holders(id) == {k \in Jobs : held[k] = id}

\* a job releases the apiConfig it holds: the reference count drops, and at
\* zero the watcher is stopped and the entry evicted
Release(j) ==
    /\ pc[j].at = "idle"
    /\ held[j] # 0
    /\ mu = 0
    /\ held' = [held EXCEPT ![j] = 0]
    /\ IF Holders(held[j]) = {j}
       THEN /\ watchers' = apiConfigMustStop(watchers, held[j])
            /\ configMap' = [d \in CacheDescs |->
                                IF configMap[d] = held[j] THEN 0 ELSE configMap[d]]
       ELSE UNCHANGED <<watchers, configMap>>
    /\ UNCHANGED <<index, last, readTimeout, waitTime, built, mu, pc, lastBuild>>

\* ac.mustStop() called by a job on the apiConfig it holds, which the job
\* uses no more
MustStop(j) ==
    /\ pc[j].at = "idle"
    /\ held[j] # 0
    /\ watchers' = apiConfigMustStop(watchers, held[j])
    /\ held' = [held EXCEPT ![j] = 0]
    /\ UNCHANGED <<index, last, readTimeout, waitTime, configMap, built, mu, pc,
                   lastBuild>>

\* a watcher's poll loop sends its next blocking request
WatcherPoll(i) ==
    /\ i \in 1..Len(watchers)
    /\ CanPoll(watchers[i])
    /\ watchers' = [watchers EXCEPT ![i].inflight = TRUE]
    /\ UNCHANGED <<index, last, readTimeout, waitTime, configMap, built, mu, pc,
                   held, lastBuild>>

\* the outstanding request of a watcher completes or times out
WatcherDone(i) ==
    /\ i \in 1..Len(watchers)
    /\ watchers[i].inflight
    /\ watchers' = [watchers EXCEPT ![i].inflight = FALSE]
    /\ UNCHANGED <<index, last, readTimeout, waitTime, configMap, built, mu, pc,
                   held, lastBuild>>

\* one call of newAPIConfig for any descriptor in any environment
Build ==
    /\ ~lastBuild.called
    /\ \E sdc \in SDConfigs, env \in Envs :
        LET r == newAPIConfig(sdc, env)
        IN  /\ lastBuild' = [called |-> TRUE, sdc |-> sdc, env |-> env] @@ r
            /\ watchers' = IF r.watcherCreated
                           THEN Append(watchers, NewWatcher(sdc, r))
                           ELSE watchers
    /\ UNCHANGED <<index, last, readTimeout, waitTime, configMap, built, mu, pc,
                   held>>

(***************************************************************************)
(* Flags and the read timeout.                                             *)
(***************************************************************************)
\* the jitter-adjusted, capped ceiling for read timeout c
WaitCeiling(c) ==
    IF c - GoDiv(c, 8) > 10 * Minute THEN 10 * Minute ELSE c - GoDiv(c, 8)

Ceilings == {0, 1, 7, 8, Second, 2 * Second, 10 * Second, 10 * Minute, 20 * Minute}

Overrides ==
    {-Second, 0, Second \div 2, Second - 1, Second, Second + 1, 5 * Second,
     10 * Minute, 30 * Minute}
    \cup UNION {{WaitCeiling(c) - 1, WaitCeiling(c), WaitCeiling(c) + 1} : c \in Ceilings}

\* the read timeout is a global of the HTTP client package and may be set
\* anew between two calls
SetReadTimeout ==
    \E c \in Ceilings :
        /\ c # readTimeout
        /\ readTimeout' = c
        /\ UNCHANGED <<index, last, waitTime, configMap, watchers, built, mu, pc,
                       held, lastBuild>>

WaitReplies ==
    {NetErr,
     [kind |-> "resp", status |-> 200, hdr |-> [present |-> TRUE, value |-> <<"1">>],
      body |-> Body]}

(***************************************************************************)
(* Specifications.                                                         *)
(***************************************************************************)
InitCache ==
    /\ configMap = [d \in CacheDescs |-> 0]
    /\ watchers = <<>>
    /\ built = [d \in CacheDescs |-> [runs |-> 0, ok |-> 0]]
    /\ mu = 0
    /\ pc = [j \in Jobs |-> [at |-> "idle", sdc |-> SdcA]]
    /\ held = [j \in Jobs |-> 0]
    /\ lastBuild = NoBuild

InitPoll ==
    /\ last = NoCall
    /\ readTimeout = 10 * Minute
    /\ waitTime = 0

\* a watcher polling from index 0
Init == index = 0 /\ InitPoll /\ InitCache
Next == Poll(Replies)
Spec == Init /\ [][Next]_vars

\* getBlockingAPIResponse called with any prior index
InitCall == index \in 0..MaxIndex /\ InitPoll /\ InitCache
SpecCall == InitCall /\ [][Next]_vars

\* polls under every read timeout and -promscrape.consul.waitTime value
InitWait ==
    /\ index = 0
    /\ last = NoCall
    /\ readTimeout \in Ceilings
    /\ waitTime \in Overrides
    /\ InitCache
NextWait == Poll(WaitReplies) \/ SetReadTimeout
SpecWait == InitWait /\ [][NextWait]_vars

\* jobs obtaining, releasing and stopping shared configs
NextCache == \E j \in Jobs : GetLock(j) \/ GetBody(j) \/ Release(j) \/ MustStop(j)
SpecCache == Init /\ [][NextCache]_vars

\* jobs only calling getAPIConfig
NextGet == \E j \in Jobs : GetLock(j) \/ GetBody(j)
SpecGet == Init /\ [][NextGet]_vars

\* jobs obtaining and stopping configs while the watchers poll
NextStop ==
    \/ \E j \in Jobs : GetLock(j) \/ GetBody(j) \/ Release(j) \/ MustStop(j)
    \/ \E i \in 1..MaxBuilds : WatcherPoll(i) \/ WatcherDone(i)
SpecStop == Init /\ [][NextStop]_vars

\* a single newAPIConfig call
NextBuild == Build
SpecBuild == Init /\ [][NextBuild]_vars

(***************************************************************************)
(* Properties.                                                             *)
(***************************************************************************)
Arrived(reply) == reply.kind = "resp"
Succeeded(reply) == Arrived(reply) /\ Is2xx(reply.status)

AllDigits(v) == \A k \in 1..Len(v) : v[k] \in {"0", "1", "2", "3", "4", "5", "6", "7", "8", "9"}
AllZeros(v) == \A k \in 1..Len(v) : v[k] = "0"

\* header values that are no decimal integer at all
NonNumeric(v) ==
    \/ v = <<>>
    \/ v \in {<<"-">>, <<"+">>}
    \/ ~AllDigits(IF v[1] \in {"-", "+"} THEN Tail(v) ELSE v)
\* decimal integers outside the int64 range
OutOfRange(v) == v \in {OverflowHdr, NegOverflowHdr}
\* decimal integers below zero
NegativeNumber(v) ==
    /\ ~NonNumeric(v) /\ ~OutOfRange(v)
    /\ v[1] = "-" /\ ~AllZeros(Tail(v))

\* C1: for a non-negative prior index i and an index n reported in the
\* X-Consul-Index header of a successful response, the returned index is
\* 1 if n < 1, else 0 if i > n, else n.
C1_IndexCorrection ==
    (/\ last.called /\ Succeeded(last.reply) /\ last.argIndex >= 0
     /\ last.reply.hdr.present
     /\ ~NonNumeric(last.reply.hdr.value) /\ ~OutOfRange(last.reply.hdr.value))
    => LET n == ParseInt(last.reply.hdr.value).val
           i == last.argIndex
       IN  /\ ParseInt(last.reply.hdr.value).ok
           /\ last.err = NoErr
           /\ last.index = IF n < 1 THEN 1 ELSE IF i > n THEN 0 ELSE n

\* a successful poll whose prior index is above the reported one, both >= 1
C1_Witness ==
    /\ last.called /\ Succeeded(last.reply) /\ last.reply.hdr.present
    /\ last.reply.hdr.value = <<"1">>
    /\ last.argIndex > 1
    /\ last.index = 0

HeaderAnomaly(reply) ==
    /\ Arrived(reply)
    /\ \/ ~reply.hdr.present
       \/ NonNumeric(reply.hdr.value)
       \/ OutOfRange(reply.hdr.value)

\* C2 as stated: when the header is absent or does not parse as a
\* non-negative 64-bit integer (empty, non-numeric, out of range, negative),
\* the returned index is the index passed in and no error results from it.
C2_AnomalyKeepsIndex_Original ==
    (last.called /\ (HeaderAnomaly(last.reply)
                     \/ (Arrived(last.reply) /\ last.reply.hdr.present
                         /\ NegativeNumber(last.reply.hdr.value))))
    => /\ last.index = last.argIndex
       /\ (Succeeded(last.reply) => last.err = NoErr)

\* C2 amended: when the header is absent, empty, non-numeric or out of the
\* int64 range, the returned index is the index passed in and the call
\* returns an error only if the request itself failed; a negative number
\* parses and gives index 1.
C2_AnomalyKeepsIndex ==
    /\ (last.called /\ HeaderAnomaly(last.reply))
       => /\ last.index = last.argIndex
          /\ (Succeeded(last.reply) <=> last.err = NoErr)
          /\ (Succeeded(last.reply) => last.data = last.reply.body)
    /\ (last.called /\ Arrived(last.reply) /\ last.reply.hdr.present
        /\ NegativeNumber(last.reply.hdr.value))
       => last.index = 1

\* a successful poll with a non-numeric header, sent with a positive index
C2_Witness ==
    /\ last.called /\ Succeeded(last.reply) /\ last.reply.hdr.present
    /\ last.reply.hdr.value = <<"1", "x">>
    /\ last.argIndex > 1
    /\ last.index = last.argIndex
    /\ last.err = NoErr

\* C3: feeding each returned index into the next poll, starting from 0, the
\* index goes down only by a reset rule: to 1 when the reported index is
\* below 1, to 0 when the local index is above the reported one.
C3_DecreaseOnlyByReset ==
    [][index' < index =>
        LET v == Peek(last'.reply)
            n == ParseInt(v).val
        IN  /\ Arrived(last'.reply) /\ ~NonNumeric(v) /\ ~OutOfRange(v)
            /\ \/ n < 1 /\ index' = 1
               \/ n >= 1 /\ index > n /\ index' = 0]_vars

\* a poll that took the index from above 1 down to 0
C3_Witness ==
    /\ last.called /\ last.argIndex > 1 /\ last.index = 0 /\ index = 0

\* C4: a call that returns an error returns the index it was given.
C4_ErrorKeepsIndex ==
    (last.called /\ last.err # NoErr) => last.index = last.argIndex

\* C5: a call sends exactly one request; when that request fails, the call
\* returns no body and an error that wraps the path it requested.
C5_OneRequestNoRetry ==
    last.called =>
        /\ Len(last.requests) = 1
        /\ last.requests[1] =
               BlockingPath(ServicesPath, last.argIndex, last.ceiling, last.override)
        /\ (~Succeeded(last.reply) <=> last.err # NoErr)
        /\ last.err # NoErr =>
               /\ last.data = NilData
               /\ last.err.msg = BlockingErrMsg
               /\ last.err.path = last.requests[1]
               /\ last.err.cause # ""

\* a call whose request was answered with status 500
C5_Witness ==
    /\ last.called /\ Arrived(last.reply) /\ last.reply.status = 500
    /\ last.err # NoErr /\ last.data = NilData

WatchersOf(d) == {i \in 1..Len(watchers) : watchers[i].key = d}

\* jobs that asked for field-for-field identical descriptors hold the same
\* apiConfig, which is the one the map caches for that descriptor
SameInstance ==
    \A j \in Jobs :
        held[j] # 0 =>
            /\ watchers[held[j]].key = pc[j].sdc
            /\ configMap[pc[j].sdc] = held[j]
            /\ \A k \in Jobs :
                   (held[k] # 0 /\ pc[k].sdc = pc[j].sdc) => held[k] = held[j]

OneWatcherPerDescriptor == \A d \in CacheDescs : Cardinality(WatchersOf(d)) <= 1

\* C6 as stated: after any interleaving of getAPIConfig calls, identical
\* descriptors yield the same apiConfig, newAPIConfig has run exactly once
\* for a descriptor, and there is at most one watcher per descriptor.
C6_Dedup_Original ==
    /\ SameInstance
    /\ OneWatcherPerDescriptor
    /\ \A d \in CacheDescs : configMap[d] # 0 => built[d].runs = 1

\* C6 amended: after any interleaving of getAPIConfig calls, identical
\* descriptors yield the same apiConfig, newAPIConfig has succeeded exactly
\* once for a cached descriptor (a failed build is not cached and is run
\* again by the next call), and there is at most one watcher per descriptor.
C6_Dedup ==
    /\ SameInstance
    /\ OneWatcherPerDescriptor
    /\ \A d \in CacheDescs :
           /\ built[d].ok <= 1
           /\ built[d].ok <= built[d].runs
           /\ configMap[d] # 0 <=> built[d].ok = 1
           /\ Cardinality(WatchersOf(d)) = built[d].ok

\* both jobs hold the one apiConfig of a descriptor whose first build failed
C6_Witness ==
    /\ held[1] # 0 /\ held[1] = held[2]
    /\ pc[1].sdc = SdcA /\ pc[2].sdc = SdcA
    /\ built[SdcA].runs = 2 /\ built[SdcA].ok = 1
    /\ Len(watchers) = 1

\* C7: a stop by one of several jobs sharing an apiConfig leaves the
\* watcher running and the entry cached: a step after which some job still
\* references the apiConfig neither stops its watcher nor evicts its entry.
C7_StopOnlyAtZero ==
    [][\A i \in 1..Len(watchers) :
          (/\ {k \in Jobs : held[k] = i} # {}
           /\ {k \in Jobs : held'[k] = i} # {}
           /\ ~watchers[i].stopped
           /\ configMap[watchers[i].key] = i)
          => /\ ~watchers'[i].stopped
             /\ configMap'[watchers[i].key] = i]_vars

\* C8: a build that fails returns no apiConfig and has constructed no
\* watcher; newConsulWatcher runs last, after every fallible step, so the
\* watchers in existence are exactly those of the builds that succeeded.
C8_AtomicBuild ==
    /\ lastBuild.called =>
          /\ lastBuild.err # "" =>
                /\ lastBuild.cfgNil
                /\ ~lastBuild.watcherCreated
                /\ \A k \in 1..Len(lastBuild.steps) :
                       lastBuild.steps[k] # "newConsulWatcher"
          /\ lastBuild.err = "" =>
                /\ ~lastBuild.cfgNil
                /\ lastBuild.watcherCreated
                /\ lastBuild.steps[Len(lastBuild.steps)] = "newConsulWatcher"
                /\ \A k \in 1..(Len(lastBuild.steps) - 1) :
                       lastBuild.steps[k] # "newConsulWatcher"
    /\ \A d \in CacheDescs : Cardinality(WatchersOf(d)) = built[d].ok

\* a build that failed at its last fallible step, after another succeeded
C8_Witness ==
    /\ lastBuild.called
    /\ lastBuild.err = "cannot parse agent info"
    /\ lastBuild.cfgNil
    /\ Len(watchers) = 1
    /\ built[SdcA].runs = 1 /\ built[SdcA].ok = 0

MinOf(a, b) == IF a <= b THEN a ELSE b

\* C9: maxWaitTime returns W if 1s < W < D, else D, where
\* D = min(C - C/8, 10 minutes).
C9_WaitTime ==
    last.called =>
        LET C == last.ceiling
            W == last.override
            D == MinOf(C - (C \div 8), 10 * Minute)
        IN  /\ last.wait = IF Second < W /\ W < D THEN W ELSE D
            /\ (W = Second \div 2 \/ W = Second \/ W >= D) => last.wait = D
            /\ (C = 20 * Minute /\ W = 0) => last.wait = 10 * Minute
            /\ (C = 20 * Minute /\ W = 5 * Second) => last.wait = 5 * Second

\* the read timeout is 20 minutes and the override of 5s is used
C9_Witness ==
    /\ last.called /\ last.ceiling = 20 * Minute /\ last.override = 5 * Second
    /\ last.wait = 5 * Second

\* the wait=<N>s parameter of a requested path, as a duration
RequestedWait(path) ==
    LET k == CHOOSE x \in 1..Len(path) : path[x] = "&wait="
    IN  ParseInt(SubSeq(path, k + 1, Len(path) - 1)).val * Second

\* C10: for a positive read timeout C and any override, the wait requested
\* from the registry is at most 10 minutes, and the wait plus the
\* registry's jitter of up to wait/16 is strictly below C.
C10_WaitBound ==
    (last.called /\ last.ceiling > 0) =>
        LET w == RequestedWait(last.requests[1])
        IN  /\ w <= 10 * Minute
            /\ w >= 0
            /\ w + (w \div 16) < last.ceiling

\* a 10s read timeout without override: 8s are requested
C10_Witness ==
    /\ last.called /\ last.ceiling = 10 * Second /\ last.override = 0
    /\ RequestedWait(last.requests[1]) = 8 * Second

\* C11: getToken takes the first of: the descriptor's token when one is
\* given, the empty string included, whatever the environment holds; else
\* the contents of the file CONSUL_HTTP_TOKEN_FILE names, a failure to read
\* it being an error with no fall-through to CONSUL_HTTP_TOKEN; else the
\* value of CONSUL_HTTP_TOKEN; else the empty token without error.
C11_TokenPrecedence ==
    lastBuild.called =>
        LET sdc == lastBuild.sdc
            env == lastBuild.env
        IN  IF sdc.Token.set
            THEN /\ lastBuild.err # TokenFileErr
                 /\ lastBuild.resolved = sdc.Token.value
            ELSE IF env.tokenFile # ""
            THEN IF env.fileOK
                 THEN /\ lastBuild.err # TokenFileErr
                      /\ lastBuild.resolved = env.fileData
                 ELSE /\ lastBuild.err = TokenFileErr
                      /\ lastBuild.cfgNil
                      /\ lastBuild.resolved = ""
            ELSE /\ lastBuild.err # TokenFileErr
                 /\ lastBuild.resolved = env.tokenEnv

\* no token in the descriptor, an unreadable token file, and a token in
\* CONSUL_HTTP_TOKEN that is not fallen back to
C11_Witness ==
    /\ lastBuild.called
    /\ ~lastBuild.sdc.Token.set
    /\ lastBuild.sdc.Username = ""
    /\ lastBuild.env.tokenFile = "/tok"
    /\ ~lastBuild.env.fileOK
    /\ lastBuild.env.tokenEnv = "envtok"
    /\ lastBuild.err = TokenFileErr
    /\ lastBuild.resolved = ""

\* the build got as far as handing its credentials to promauth.NewConfig
ReachedAuth == lastBuild.called /\ Len(lastBuild.steps) >= 2

\* C12: when the descriptor carries basic-auth credentials (a non-empty
\* username, which is what newAPIConfig tests), the auth config is built
\* from that username and password with an empty token, whatever token was
\* resolved; without them the resolved token is used and no basic-auth
\* config is set; a basic-auth config and a non-empty token never go
\* together.
C12_BasicAuthPrecedence ==
    ReachedAuth =>
        /\ lastBuild.sdc.Username # "" =>
              /\ lastBuild.basicAuth =
                     [set |-> TRUE, username |-> lastBuild.sdc.Username,
                      password |-> lastBuild.sdc.Password]
              /\ lastBuild.token = ""
        /\ lastBuild.sdc.Username = "" =>
              /\ ~lastBuild.basicAuth.set
              /\ lastBuild.token = lastBuild.resolved
        /\ ~(lastBuild.basicAuth.set /\ lastBuild.token # "")

\* a descriptor with both a token and basic-auth credentials, built
\* without error: the token was resolved and then discarded
C12_Witness ==
    /\ lastBuild.called
    /\ lastBuild.err = ""
    /\ lastBuild.sdc.Username = "user"
    /\ lastBuild.sdc.Password = "pw"
    /\ lastBuild.sdc.Token = Given("abc")
    /\ lastBuild.resolved = "abc"
    /\ lastBuild.basicAuth.set
    /\ lastBuild.token = ""

\* the build got as far as calling getDatacenter
ReachedDatacenter == lastBuild.called /\ Len(lastBuild.steps) >= 5

\* C13: a non-empty datacenter in the descriptor is used as it is and no
\* request to /v1/agent/self is sent; an empty one makes the build send
\* exactly one request there, not a blocking one, whose datacenter is used,
\* and whose failure aborts the build.
C13_DatacenterResolution ==
    /\ lastBuild.called /\ ~ReachedDatacenter => lastBuild.requests = <<>>
    /\ ReachedDatacenter /\ lastBuild.sdc.Datacenter # "" =>
          /\ lastBuild.requests = <<>>
          /\ lastBuild.err = ""
          /\ lastBuild.dc = lastBuild.sdc.Datacenter
    /\ ReachedDatacenter /\ lastBuild.sdc.Datacenter = "" =>
          /\ lastBuild.requests =
                 <<[path |-> "/v1/agent/self", blocking |-> FALSE]>>
          /\ IF lastBuild.env.agentOK /\ lastBuild.env.parseOK
             THEN /\ lastBuild.err = ""
                  /\ lastBuild.dc = lastBuild.env.agentDC
             ELSE /\ lastBuild.err # ""
                  /\ lastBuild.cfgNil
                  /\ ~lastBuild.watcherCreated
                  /\ ~lastBuild.env.agentOK =>
                         lastBuild.err = "cannot query consul agent info"

\* a build with no datacenter in its descriptor whose one request to the
\* agent failed
C13_Witness ==
    /\ lastBuild.called
    /\ lastBuild.sdc.Datacenter = ""
    /\ ~lastBuild.env.agentOK
    /\ Len(lastBuild.requests) = 1
    /\ lastBuild.err = "cannot query consul agent info"
    /\ lastBuild.cfgNil

\* the build got as far as creating the client for the server address
ReachedClient == lastBuild.called /\ Len(lastBuild.steps) >= 4

SchemeOrHttp(sdc) == IF sdc.Scheme = <<>> THEN <<"h", "t", "t", "p">> ELSE sdc.Scheme

\* C14 as stated: an address containing "://" is used unchanged, one
\* without gets the descriptor's scheme, or "http" when that is empty, and
\* "://" prepended, and an empty server yields "http://localhost:8500".
C14_ServerNormalization_Original ==
    ReachedClient =>
        LET sdc == lastBuild.sdc
        IN  /\ Contains(sdc.Server, <<":", "/", "/">>) =>
                  lastBuild.apiServer = sdc.Server
            /\ sdc.Server # <<>> /\ ~Contains(sdc.Server, <<":", "/", "/">>) =>
                  lastBuild.apiServer =
                      SchemeOrHttp(sdc) \o <<":", "/", "/">> \o sdc.Server
            /\ sdc.Server = <<>> =>
                  lastBuild.apiServer =
                      <<"h","t","t","p",":","/","/","l","o","c","a","l","h","o","s","t",
                        ":","8","5","0","0">>

\* C14: an address containing "://" is used unchanged; one without gets
\* the descriptor's scheme, or "http" when that is empty, and "://"
\* prepended; an empty server is taken as "localhost:8500" and gets its
\* scheme the same way, so it is "http://localhost:8500" only when the
\* descriptor's scheme is empty or "http".
C14_ServerNormalization ==
    ReachedClient =>
        LET sdc == lastBuild.sdc
        IN  /\ Contains(sdc.Server, <<":", "/", "/">>) =>
                  lastBuild.apiServer = sdc.Server
            /\ sdc.Server # <<>> /\ ~Contains(sdc.Server, <<":", "/", "/">>) =>
                  lastBuild.apiServer =
                      SchemeOrHttp(sdc) \o <<":", "/", "/">> \o sdc.Server
            /\ sdc.Server = <<>> =>
                  lastBuild.apiServer =
                      SchemeOrHttp(sdc) \o
                      <<":","/","/","l","o","c","a","l","h","o","s","t",
                        ":","8","5","0","0">>

\* a descriptor with no server and scheme https, built without error for
\* https://localhost:8500
C14_Witness ==
    /\ lastBuild.called
    /\ lastBuild.err = ""
    /\ lastBuild.sdc.Server = <<>>
    /\ lastBuild.sdc.Scheme = <<"h", "t", "t", "p", "s">>
    /\ lastBuild.apiServer =
           <<"h","t","t","p","s",":","/","/","l","o","c","a","l","h","o","s","t",
             ":","8","5","0","0">>

\* C19: newAPIConfig resolves the token first, before it looks at the
\* basic-auth credentials: with no token in the descriptor and
\* CONSUL_HTTP_TOKEN_FILE naming an unreadable file the build fails with
\* the read error at that first step, also when the descriptor carries
\* basic-auth credentials that would have discarded the token.
C19_TokenBeforeBasicAuth ==
    lastBuild.called =>
        /\ lastBuild.steps[1] = "getToken"
        /\ (/\ ~lastBuild.sdc.Token.set
            /\ lastBuild.env.tokenFile # ""
            /\ ~lastBuild.env.fileOK)
           => /\ lastBuild.err = TokenFileErr
              /\ lastBuild.cfgNil
              /\ lastBuild.steps = <<"getToken">>
              /\ ~lastBuild.basicAuth.set
              /\ ~lastBuild.watcherCreated

\* basic-auth credentials in the descriptor, and the build failed on the
\* unreadable token file all the same
C19_Witness ==
    /\ lastBuild.called
    /\ lastBuild.sdc.Username = "user"
    /\ lastBuild.sdc.Password = "pw"
    /\ ~lastBuild.sdc.Token.set
    /\ lastBuild.env.tokenFile = "/tok"
    /\ ~lastBuild.env.fileOK
    /\ lastBuild.err = TokenFileErr
    /\ lastBuild.steps = <<"getToken">>

\* the whole seconds of the wait for read timeout C and override W
WaitSeconds(C, W) ==
    LET D == MinOf(C - (C \div 8), 10 * Minute)
    IN  (IF Second < W /\ W < D THEN W ELSE D) \div Second

\* C16: every poll sends one request whose path ends in index=<i>, i the
\* index the watcher holds when it polls, and wait=<N>s, N the whole
\* seconds of the wait computed from the read timeout and the override in
\* force at that call, not from those of an earlier call.
C16_RequestShape ==
    [][last' # last =>
          /\ last'.called
          /\ last'.argIndex = index
          /\ last'.requests =
                 << <<"/v1/catalog/services?dc=dc1">>
                    \o <<"&index=">> \o FormatInt(index)
                    \o <<"&wait=">> \o FormatInt(WaitSeconds(readTimeout, waitTime))
                    \o <<"s">> >>]_vars

\* a second poll, sent with index 1 under a read timeout of 10s and no
\* override: the wait of 8.75s is sent as 8s
C16_Witness ==
    /\ last.called
    /\ last.argIndex = 1
    /\ readTimeout = 10 * Second /\ waitTime = 0
    /\ last.ceiling = 10 * Second
    /\ last.requests =
           << <<"/v1/catalog/services?dc=dc1", "&index=", "1", "&wait=", "8", "s">> >>

\* a successful response whose X-Consul-Index header parses as an integer
Parsable(reply) ==
    /\ Succeeded(reply)
    /\ reply.hdr.present
    /\ ~NonNumeric(reply.hdr.value) /\ ~OutOfRange(reply.hdr.value)

\* a successful response reporting index n
Reports(reply, n) == Parsable(reply) /\ ParseInt(reply.hdr.value).val = n

\* C17: from any non-negative index, two polls in a row that succeed and
\* report the same index n >= 1 leave the index at n: a reset to 0 (index
\* above n) is followed by the adoption of n, and a poll reporting n when
\* the index is n keeps it.
C17_Resync ==
    [][LET n == ParseInt(Peek(last'.reply)).val
       IN  (/\ Parsable(last'.reply) /\ n >= 1 /\ index >= 0
            /\ \/ last.called /\ Reports(last.reply, n)
               \/ index = n
               \/ index = 0)
           => index' = n]_vars

\* a poll reporting 10 to a watcher whose index 10 was adopted from an
\* earlier poll reporting 10 (no call starts above MaxIndex): it stays 10
C17_Witness ==
    /\ last.called
    /\ last.argIndex = 10
    /\ last.argIndex > MaxIndex
    /\ Reports(last.reply, 10)
    /\ last.index = 10
    /\ index = 10

\* C18: a successful poll sent with index 0 whose response has a parsable
\* X-Consul-Index header returns an index of at least 1, so the next poll
\* is not sent with index 0 again; for a non-negative index passed in the
\* index returned is never negative.
C18_NoRepeatedRefresh ==
    last.called =>
        /\ (last.argIndex = 0 /\ Parsable(last.reply)) =>
               /\ last.index >= 1
               /\ index >= 1
        /\ last.argIndex >= 0 => last.index >= 0

\* a poll sent with index 0 and answered with X-Consul-Index: 0 returns 1
C18_Witness ==
    /\ last.called
    /\ last.argIndex = 0
    /\ Succeeded(last.reply)
    /\ last.reply.hdr.present
    /\ last.reply.hdr.value = <<"0">>
    /\ last.index = 1

\* C15: stopping a watcher does not wait for its outstanding request: the
\* stop only marks the watcher, the request stays outstanding until it
\* completes on its own, and a stopped watcher is never un-stopped and
\* never sends a new request.
C15_Cancellation ==
    [][\A i \in 1..Len(watchers) :
          /\ (~watchers[i].stopped /\ watchers'[i].stopped) =>
                 watchers'[i].inflight = watchers[i].inflight
          /\ watchers[i].stopped =>
                 /\ watchers'[i].stopped
                 /\ watchers'[i].inflight => watchers[i].inflight]_vars

\* a watcher stopped while its request is still outstanding
C15_Witness ==
    \E i \in 1..Len(watchers) : watchers[i].stopped /\ watchers[i].inflight

====
